---- MODULE Spec2Model ----
(***************************************************************************)
(* KARMIC (src/app.py): a favour marketplace.  Users post requests backed  *)
(* by escrowed coins, other users accept and fulfil them, and a two-step   *)
(* confirmation releases the coins and the experience points.              *)
(*                                                                         *)
(* The database is three tables (user, request, message); a row's primary  *)
(* key is its index in the sequence modelling the table.  Every route is   *)
(* one action: it reads the caller's session and the form, changes the     *)
(* tables (one commit) and leaves the HTTP response in resp.  Payload      *)
(* columns no route ever reads back to decide anything (a request's title, *)
(* description, difficulty label and creation time) are not stored; the    *)
(* title and description still decide whether the INSERT is accepted.      *)
(*                                                                         *)
(* session is the user_id of the session cookie the next call carries: a   *)
(* route reads nothing of any other browser's cookie, so the calls of many *)
(* browsers are the calls of one that logs in between them.                *)
(*                                                                         *)
(* Spec and SpecChat run the routes one after the other, each from its     *)
(* first line to its commit.  SpecRace lets accept_task calls overlap: a   *)
(* call is then two steps, the load of its rows with the guards and the    *)
(* write with the commit.  SpecBoard applies the dashboard to user tables  *)
(* drawn from a bounded set.                                               *)
(***************************************************************************)
EXTENDS Integers, Sequences, FiniteSets, TLC

VARIABLES
  users,     \* the user table: username, password_hash, coins, experience_points
  requests,  \* the request table: reward_coins, xp_value, requester_id, helper_id, status
  messages,  \* the message table: request_id, sender_id, content, timestamp
  session,   \* session['user_id'] of the caller's cookie, NoUser when it has none
  resp,      \* the response to the last call
  inflight   \* the accept_task calls under way in other threads: those that have
             \* loaded their rows and passed the guards (loaded), and, in the order
             \* of their commits, those that have committed (committed)

vars == <<users, requests, messages, session, resp, inflight>>

----------------------------------------------------------------------------
(* Bounds of the model *)

\* rows of the request table when the lifecycle and the ledger are explored (Spec)
MaxRequests == 2

\* rows of the message table when the lifecycle and the ledger are explored (Spec)
LedgerMessages == 0

\* rows of the request table when the chat is explored (SpecChat)
ChatRequests == 1

\* rows of the message table when the chat is explored (SpecChat)
MaxMessages == 2

\* readings of the wall clock
MaxTime == 2

\* rows of the request table when the balances are explored (SpecLedger)
LedgerRequests == 3

\* rows of the user table when the balances are explored (SpecLedger): the seeded users
LedgerUsers == 2

\* rows of the request table when overlapping accept_task calls are explored (SpecRace)
RaceRequests == 1

\* accept_task calls that overlap (SpecRace)
RaceCalls == 2

\* rows of the user table when the dashboard is explored (SpecBoard)
MaxBoardUsers == 11

\* the largest experience_points the rank is computed for
MaxXp == 520

----------------------------------------------------------------------------
(* Values *)

\* session.get('user_id') is None / db.session.get(...) is None / helper_id NULL
NoUser == 0

\* every request id a URL can carry: the rows that can exist and one that never does
RequestIds == 1 .. (MaxRequests + 1)

\* usernames in ascending string order (the order Python compares them in)
UsernameOrder == <<"Carol", "HelperB", "RequesterA">>

Usernames == {UsernameOrder[i] : i \in 1 .. Len(UsernameOrder)}

\* the password form field; "" is a field left empty or missing
Passwords == {"", "password", "hunter2"}

\* the difficulty form field; "None" is a missing field, "Epic" an unknown label
Difficulties == {"Easy", "Medium", "Hard", "Epic", "None"}

\* the content form field of send_message; "" is empty or missing
Contents == {"", "hi"}

\* datetime.utcnow(): the wall clock, which may stand still or be set back
Times == 1 .. MaxTime

XP_MAPPING == [d \in {"Easy", "Medium", "Hard"} |->
                 CASE d = "Easy" -> 10 [] d = "Medium" -> 25 [] d = "Hard" -> 50]

DefaultXp == 10

\* User.coins default
DefaultCoins == 100

\* User.experience_points default
DefaultExperience == 0

\* sorted(...)[:10]
LeaderboardSize == 10

\* XpFor falling back to the column default of xp_value
XpFor_DefaultMedium(difficulty) ==
  IF difficulty \in DOMAIN XP_MAPPING THEN XP_MAPPING[difficulty] ELSE 25

\* XP_MAPPING.get(difficulty, 10)
XpFor(difficulty) ==
  IF difficulty \in DOMAIN XP_MAPPING THEN XP_MAPPING[difficulty] ELSE DefaultXp

\* get_karmic_rank with the first two bands merged
get_karmic_rank_NoRecruit(xp) ==
  IF xp >= 500 THEN "Karmic Master"
  ELSE IF xp >= 200 THEN "Community Elder"
  ELSE IF xp >= 50 THEN "Active Peer"
  ELSE "Newbie"

get_karmic_rank(xp) ==
  IF xp >= 500 THEN "Karmic Master"
  ELSE IF xp >= 200 THEN "Community Elder"
  ELSE IF xp >= 50 THEN "Active Peer"
  ELSE IF xp >= 10 THEN "Helper Recruit"
  ELSE "Newbie"

generate_password_hash(password) == <<"hash", password>>

check_password_hash(pwhash, password) == pwhash = generate_password_hash(password)

\* the rows initialize_app commits into the fresh database
SeedUsers ==
  << [username |-> "RequesterA", password_hash |-> generate_password_hash("password"),
      coins |-> 500, experience_points |-> 120],
     [username |-> "HelperB", password_hash |-> generate_password_hash("password"),
      coins |-> 100, experience_points |-> 60] >>

\* the id of the logged-in user, NoUser (None) when the session names none
get_current_user ==
  IF session # NoUser /\ session \in DOMAIN users THEN session ELSE NoUser

----------------------------------------------------------------------------
(* Responses *)

NoView == << >>

\* what the caller gets back: a redirect (after a flash notice or without one),
\* a rendered page (view: what the template is given: the message ids of a chat
\* thread, the Dashboard of index), or Flask's 500 page
Response(kind, notice, view) == [kind |-> kind, notice |-> notice, view |-> view]

\* flash(...); return redirect(...)
Notice == resp' = Response("redirect", TRUE, NoView)

\* return redirect(...) with nothing flashed
Redirect == resp' = Response("redirect", FALSE, NoView)

\* return render_template(...)
Render(view) == resp' = Response("render", FALSE, view)

\* an exception no handler catches: Flask answers 500 and the session is rolled back
ServerError == resp' = Response("error", FALSE, NoView)

----------------------------------------------------------------------------
(* Initial state: initialize_app has run, nobody is logged in *)

\* no accept_task call is under way, none has committed
NoCalls == [loaded |-> {}, committed |-> << >>]

Init ==
  /\ users = SeedUsers
  /\ requests = << >>
  /\ messages = << >>
  /\ session = NoUser
  /\ resp = Response("render", FALSE, NoView)
  /\ inflight = NoCalls

----------------------------------------------------------------------------
(* Accept Task Route *)

\* not karmic_request or karmic_request.status != 'Live'
AcceptUnavailable(request_id) ==
  request_id \notin DOMAIN requests \/ requests[request_id].status # "Live"

\* IsOwnRequest with the test dropped
IsOwnRequest_Never(request_id, helper) == FALSE

\* karmic_request.requester_id == helper.id
IsOwnRequest(request_id, helper) == requests[request_id].requester_id = helper

\* AcceptedBy that moves the status and leaves helper_id as it is
AcceptedBy_StatusOnly(request_id, helper) ==
  [requests EXCEPT ![request_id].status = "Accepted"]

\* AcceptedBy that writes only while the row is still Live
AcceptedBy_IfStillLive(request_id, helper) ==
  IF requests[request_id].status = "Live"
  THEN [requests EXCEPT ![request_id].helper_id = helper,
                        ![request_id].status = "Accepted"]
  ELSE requests

\* karmic_request.helper_id = helper.id; karmic_request.status = 'Accepted';
\* db.session.commit(): UPDATE request SET helper_id=?, status=? WHERE id=?
AcceptedBy(request_id, helper) ==
  [requests EXCEPT ![request_id].helper_id = helper,
                   ![request_id].status = "Accepted"]

accept_task(request_id) ==
  LET helper == get_current_user IN
  IF AcceptUnavailable(request_id)
  THEN /\ Notice
       /\ UNCHANGED <<users, requests, messages, session>>
  ELSE IF helper = NoUser
  THEN /\ ServerError
       /\ UNCHANGED <<users, requests, messages, session>>
  ELSE IF IsOwnRequest(request_id, helper)
  THEN /\ Notice
       /\ UNCHANGED <<users, requests, messages, session>>
  ELSE /\ requests' = AcceptedBy(request_id, helper)
       /\ Notice
       /\ UNCHANGED <<users, messages, session>>

\* an accept_task call under way: who calls, and for which request
Call(helper, request_id) == [helper |-> helper, request_id |-> request_id]

\* accept_task up to the write: the rows are loaded and the guards evaluated; a
\* call the guards let through goes on to its write in a later step
accept_task_load(request_id) ==
  LET helper == get_current_user IN
  IF AcceptUnavailable(request_id)
  THEN /\ Notice
       /\ UNCHANGED <<users, requests, messages, session, inflight>>
  ELSE IF helper = NoUser
  THEN /\ ServerError
       /\ UNCHANGED <<users, requests, messages, session, inflight>>
  ELSE IF IsOwnRequest(request_id, helper)
  THEN /\ Notice
       /\ UNCHANGED <<users, requests, messages, session, inflight>>
  ELSE /\ inflight' = [inflight EXCEPT !.loaded = @ \cup {Call(helper, request_id)}]
       /\ UNCHANGED <<users, requests, messages, session, resp>>

\* accept_task from the write on: the call writes what it decided on the rows it
\* loaded, commits and answers
accept_task_commit(call) ==
  /\ call \in inflight.loaded
  /\ requests' = AcceptedBy(call.request_id, call.helper)
  /\ inflight' = [loaded |-> inflight.loaded \ {call},
                  committed |-> Append(inflight.committed, call)]
  /\ Notice
  /\ UNCHANGED <<users, messages, session>>

----------------------------------------------------------------------------
(* Create Request Route *)

\* InsufficientCoins with the test dropped
InsufficientCoins_Never(coins, reward) == FALSE

\* requester.coins < reward
InsufficientCoins(coins, reward) == coins < reward

\* Request(title=..., description=..., reward_coins=reward, xp_value=xp_reward,
\* requester_id=requester.id); helper_id and status take their column defaults
NewRequest(requester, reward, xp_reward) ==
  [reward_coins |-> reward, xp_value |-> xp_reward, requester_id |-> requester,
   helper_id |-> NoUser, status |-> "Live"]

\* title and description are NOT NULL columns: a missing form field is None,
\* and the INSERT of the row fails at commit
InsertRefused(title, description) == title = "None" \/ description = "None"

create_request(method, title, description, difficulty) ==
  LET requester == get_current_user
      xp_reward == XpFor(difficulty)
      reward    == xp_reward
  IN
  IF requester = NoUser
  THEN /\ Redirect
       /\ UNCHANGED <<users, requests, messages, session>>
  ELSE IF method = "GET"
  THEN /\ Render(NoView)
       /\ UNCHANGED <<users, requests, messages, session>>
  ELSE IF InsufficientCoins(users[requester].coins, reward)
  THEN /\ Notice
       /\ UNCHANGED <<users, requests, messages, session>>
  ELSE IF InsertRefused(title, description)
  THEN /\ ServerError
       /\ UNCHANGED <<users, requests, messages, session>>
  ELSE /\ users' = [users EXCEPT ![requester].coins = @ - reward]
       /\ requests' = Append(requests, NewRequest(requester, reward, xp_reward))
       /\ Notice
       /\ UNCHANGED <<messages, session>>

----------------------------------------------------------------------------
(* ROUTE 1: Helper Confirms Completion *)

\* ConfirmRejected with the helper test dropped
ConfirmRejected_AnyActor(request_id, helper) ==
  requests[request_id].status # "Accepted"

\* not karmic_request or karmic_request.helper_id != helper.id
\*   or karmic_request.status != 'Accepted'
ConfirmRejected(request_id, helper) ==
  \/ requests[request_id].helper_id # helper
  \/ requests[request_id].status # "Accepted"

helper_confirm(request_id) ==
  LET helper == get_current_user IN
  IF request_id \notin DOMAIN requests
  THEN /\ Notice
       /\ UNCHANGED <<users, requests, messages, session>>
  ELSE IF helper = NoUser
  THEN /\ ServerError
       /\ UNCHANGED <<users, requests, messages, session>>
  ELSE IF ConfirmRejected(request_id, helper)
  THEN /\ Notice
       /\ UNCHANGED <<users, requests, messages, session>>
  ELSE /\ requests' = [requests EXCEPT ![request_id].status = "Confirmed_By_Helper"]
       /\ Notice
       /\ UNCHANGED <<users, messages, session>>

----------------------------------------------------------------------------
(* ROUTE 2: Requester Approves and Releases Funds *)

\* ApproveRejected that lets a Completed request through again
ApproveRejected_AgainWhenCompleted(request_id, requester) ==
  \/ requests[request_id].requester_id # requester
  \/ requests[request_id].status \notin {"Confirmed_By_Helper", "Completed"}

\* ApproveRejected with the status test dropped
ApproveRejected_AnyStatus(request_id, requester) ==
  requests[request_id].requester_id # requester

\* not karmic_request or karmic_request.requester_id != requester.id
\*   or karmic_request.status != 'Confirmed_By_Helper'
ApproveRejected(request_id, requester) ==
  \/ requests[request_id].requester_id # requester
  \/ requests[request_id].status # "Confirmed_By_Helper"

\* Credit that grants the XP of the easiest difficulty whatever the request is worth
Credit_FlatXp(helper, reward_coins, xp_value) ==
  [users EXCEPT ![helper].coins = @ + reward_coins,
                ![helper].experience_points = @ + DefaultXp]

\* Credit that grants the XP and leaves the coins where they are
Credit_WithoutCoins(helper, reward_coins, xp_value) ==
  [users EXCEPT ![helper].experience_points = @ + xp_value]

\* Credit that rewards the approving requester with the XP as well
Credit_RequesterToo(helper, reward_coins, xp_value) ==
  [users EXCEPT ![helper].coins = @ + reward_coins,
                ![helper].experience_points = @ + xp_value,
                ![session].experience_points = @ + xp_value]

\* helper.coins += reward_coins; helper.experience_points += xp_value
Credit(helper, reward_coins, xp_value) ==
  [users EXCEPT ![helper].coins = @ + reward_coins,
                ![helper].experience_points = @ + xp_value]

requester_approve(request_id) ==
  LET requester == get_current_user IN
  IF request_id \notin DOMAIN requests
  THEN /\ Notice
       /\ UNCHANGED <<users, requests, messages, session>>
  ELSE IF requester = NoUser
  THEN /\ ServerError
       /\ UNCHANGED <<users, requests, messages, session>>
  ELSE IF ApproveRejected(request_id, requester)
  THEN /\ Notice
       /\ UNCHANGED <<users, requests, messages, session>>
  ELSE LET karmic_request == requests[request_id]
           helper == karmic_request.helper_id
       IN
       /\ requests' = [requests EXCEPT ![request_id].status = "Completed"]
       /\ IF helper \in DOMAIN users
          THEN /\ users' = Credit(helper, karmic_request.reward_coins,
                                  karmic_request.xp_value)
               /\ Notice
          ELSE \* new_rank is unbound in the flash that follows the commit
               /\ users' = users
               /\ ServerError
       /\ UNCHANGED <<messages, session>>

----------------------------------------------------------------------------
(* Chat routes *)

\* NotParticipant with the test dropped
NotParticipant_Never(request_id, current_user) == FALSE

\* karmic_request.requester_id != current_user.id
\*   and karmic_request.helper_id != current_user.id
NotParticipant(request_id, current_user) ==
  /\ requests[request_id].requester_id # current_user
  /\ requests[request_id].helper_id # current_user

RECURSIVE SelectIds(_, _)
\* the ids of the rows of table, in primary-key order, that request_id owns
SelectIds(table, request_id) ==
  IF table = << >> THEN << >>
  ELSE LET rest == SelectIds(SubSeq(table, 1, Len(table) - 1), request_id) IN
       IF table[Len(table)].request_id = request_id
       THEN Append(rest, Len(table)) ELSE rest

\* ids with id placed behind every entry whose timestamp is not later
InsertByTimestamp(ids, id) ==
  LET before == {i \in 1 .. Len(ids) :
                   messages[ids[i]].timestamp <= messages[id].timestamp}
      k == IF before = {} THEN 0 ELSE CHOOSE i \in before : \A j \in before : j <= i
  IN SubSeq(ids, 1, k) \o <<id>> \o SubSeq(ids, k + 1, Len(ids))

\* the rows as the engine scanned them, the ORDER BY dropped
OrderByTimestamp_Unsorted(ids) == ids

RECURSIVE OrderByTimestamp(_)
\* .order_by(Message.timestamp)
OrderByTimestamp(ids) ==
  IF ids = << >> THEN << >>
  ELSE InsertByTimestamp(OrderByTimestamp(SubSeq(ids, 1, Len(ids) - 1)), ids[Len(ids)])

\* the orders in which the engine may hand the rows ids to the sorter
ScanOrders(ids) ==
  {s \in [1 .. Len(ids) -> {ids[i] : i \in 1 .. Len(ids)}] :
     \A i, j \in 1 .. Len(ids) : i # j => s[i] # s[j]}

chat_view(request_id) ==
  LET current_user == get_current_user IN
  IF request_id \notin DOMAIN requests
  THEN /\ Notice
       /\ UNCHANGED <<users, requests, messages, session>>
  ELSE IF current_user = NoUser
  THEN /\ ServerError
       /\ UNCHANGED <<users, requests, messages, session>>
  ELSE IF NotParticipant(request_id, current_user)
  THEN /\ Notice
       /\ UNCHANGED <<users, requests, messages, session>>
  ELSE /\ \E scan \in ScanOrders(SelectIds(messages, request_id)) :
            Render(OrderByTimestamp(scan))
       /\ UNCHANGED <<users, requests, messages, session>>

\* Message(request_id=request_id, sender_id=current_user.id, content=content),
\* timestamp defaulting to datetime.utcnow()
NewMessage(request_id, sender, content, now) ==
  [request_id |-> request_id, sender_id |-> sender, content |-> content,
   timestamp |-> now]

send_message(request_id, content, now) ==
  LET current_user == get_current_user IN
  IF content = "" \/ request_id \notin DOMAIN requests
  THEN /\ Notice
       /\ UNCHANGED <<users, requests, messages, session>>
  ELSE IF current_user = NoUser
  THEN /\ ServerError
       /\ UNCHANGED <<users, requests, messages, session>>
  ELSE IF NotParticipant(request_id, current_user)
  THEN /\ Notice
       /\ UNCHANGED <<users, requests, messages, session>>
  ELSE /\ messages' = Append(messages, NewMessage(request_id, current_user, content, now))
       /\ Redirect
       /\ UNCHANGED <<users, requests, session>>

----------------------------------------------------------------------------
(* Session routes *)

logout ==
  /\ session' = NoUser
  /\ Notice
  /\ UNCHANGED <<users, requests, messages>>

\* FindUser that finds nobody
FindUser_Nobody(username) == NoUser

\* User.query.filter_by(username=username).first()
FindUser(username) ==
  IF \E id \in DOMAIN users : users[id].username = username
  THEN CHOOSE id \in DOMAIN users : users[id].username = username
  ELSE NoUser

\* User(username=username, password_hash=generate_password_hash(password))
NewUser(username, password) ==
  [username |-> username, password_hash |-> generate_password_hash(password),
   coins |-> DefaultCoins, experience_points |-> DefaultExperience]

\* username is the form field after strip(); "None" is a form without the field
login_signup(method, username, password, action) ==
  LET caller == get_current_user
      user   == FindUser(username)
  IN
  IF method = "GET"
  THEN /\ Render(NoView)
       /\ UNCHANGED <<users, requests, messages, session>>
  ELSE IF username = "None"
  THEN /\ ServerError
       /\ UNCHANGED <<users, requests, messages, session>>
  ELSE IF username = "" \/ password = ""
  THEN /\ Notice
       /\ UNCHANGED <<users, requests, messages, session>>
  ELSE IF action = "register"
  THEN IF user # NoUser
       THEN /\ Notice
            /\ UNCHANGED <<users, requests, messages, session>>
       ELSE /\ users' = Append(users, NewUser(username, password))
            /\ session' = Len(users) + 1
            /\ Notice
            /\ UNCHANGED <<requests, messages>>
  ELSE IF action = "login"
  THEN IF user # NoUser /\ check_password_hash(users[user].password_hash, password)
       THEN /\ session' = user
            /\ Notice
            /\ UNCHANGED <<users, requests, messages>>
       ELSE /\ Notice
            /\ UNCHANGED <<users, requests, messages, session>>
  ELSE /\ Redirect
       /\ UNCHANGED <<users, requests, messages, session>>

----------------------------------------------------------------------------
(* Main Dashboard Route *)

RECURSIVE LiveRequests_OwnIncluded(_, _)
\* LiveRequests with the filter on the requester dropped
LiveRequests_OwnIncluded(table, current_user) ==
  IF table = << >> THEN << >>
  ELSE LET rest == LiveRequests_OwnIncluded(SubSeq(table, 1, Len(table) - 1), current_user)
       IN IF table[Len(table)].status = "Live"
          THEN Append(rest, Len(table)) ELSE rest

RECURSIVE LiveRequests(_, _)
\* Request.query.filter(Request.status == 'Live',
\*                      Request.requester_id != current_user.id).all()
LiveRequests(table, current_user) ==
  IF table = << >> THEN << >>
  ELSE LET rest == LiveRequests(SubSeq(table, 1, Len(table) - 1), current_user)
           row  == table[Len(table)]
       IN IF row.status = "Live" /\ row.requester_id # current_user
          THEN Append(rest, Len(table)) ELSE rest

RECURSIVE MyRequests(_, _)
\* Request.query.filter((Request.requester_id == current_user.id)
\*                      | (Request.helper_id == current_user.id)).all()
MyRequests(table, current_user) ==
  IF table = << >> THEN << >>
  ELSE LET rest == MyRequests(SubSeq(table, 1, Len(table) - 1), current_user)
           row  == table[Len(table)]
       IN IF row.requester_id = current_user \/ row.helper_id = current_user
          THEN Append(rest, Len(table)) ELSE rest

\* usernames of further users, in ascending string order
BoardNames == <<"a", "b", "c", "d", "e", "f", "g", "h", "i", "j", "k">>

\* every username in the order Python compares strings in (by code point:
\* upper case before lower case)
NameOrder == UsernameOrder \o BoardNames

\* the place of a username in that order
NameRank(username) == CHOOSE i \in 1 .. Len(NameOrder) : NameOrder[i] = username

\* KeyLess with the coins left out of the key
KeyLess_WithoutCoins(a, b) ==
  \/ a.experience_points < b.experience_points
  \/ /\ a.experience_points = b.experience_points
     /\ NameRank(a.username) < NameRank(b.username)

\* key(a) < key(b) for key = lambda user: (user.experience_points, user.coins,
\* user.username): tuples compare item by item
KeyLess(a, b) ==
  \/ a.experience_points < b.experience_points
  \/ /\ a.experience_points = b.experience_points
     /\ a.coins < b.coins
  \/ /\ a.experience_points = b.experience_points
     /\ a.coins = b.coins
     /\ NameRank(a.username) < NameRank(b.username)

\* ids, sorted by descending key, with id placed behind every entry whose key is
\* not less than its own (reverse=True keeps the order of equal keys)
InsertByKey(all_users, ids, id) ==
  LET before == {i \in 1 .. Len(ids) : ~KeyLess(all_users[ids[i]], all_users[id])}
      k == IF before = {} THEN 0 ELSE CHOOSE i \in before : \A j \in before : j <= i
  IN SubSeq(ids, 1, k) \o <<id>> \o SubSeq(ids, k + 1, Len(ids))

RECURSIVE SortedByKey(_, _)
\* sorted(all_users, key=..., reverse=True) over the first n rows
SortedByKey(all_users, n) ==
  IF n = 0 THEN << >>
  ELSE InsertByKey(all_users, SortedByKey(all_users, n - 1), n)

\* sorted(all_users, key=..., reverse=True)[:10], as ids of the rows
Leaderboard(all_users) ==
  LET ranking == SortedByKey(all_users, Len(all_users)) IN
  SubSeq(ranking, 1, IF Len(ranking) < LeaderboardSize THEN Len(ranking)
                     ELSE LeaderboardSize)

\* what dashboard.html is rendered from
Dashboard(user, live_requests, my_requests, user_rank, leaderboard) ==
  <<user, live_requests, my_requests, user_rank, leaderboard>>

index ==
  LET current_user == get_current_user IN
  /\ IF current_user = NoUser
     THEN Redirect
     ELSE Render(Dashboard(current_user,
                           LiveRequests(requests, current_user),
                           MyRequests(requests, current_user),
                           get_karmic_rank(users[current_user].experience_points),
                           Leaderboard(users)))
  /\ UNCHANGED <<users, requests, messages, session>>

----------------------------------------------------------------------------

\* a text form field: present (possibly empty) or missing
TextFields == {"text", "None"}

\* the username form field after strip(); "None" is a form without the field
UsernameFields == Usernames \cup {"", "None"}

\* the action form field; "None" is neither 'login' nor 'register'
FormActions == {"login", "register", "None"}

\* the tables stay within the bounds of the exploration (the user table is
\* bounded by Usernames: a username registers once)
Within(maxRequests, maxMessages) ==
  /\ Len(requests') <= maxRequests
  /\ Len(messages') <= maxMessages

Next ==
  \/ index /\ UNCHANGED inflight
  \/ create_request("GET", "None", "None", "None") /\ UNCHANGED inflight
  \/ \E title \in TextFields, description \in TextFields, difficulty \in Difficulties :
       create_request("POST", title, description, difficulty)
         /\ Within(MaxRequests, LedgerMessages) /\ UNCHANGED inflight
  \/ \E request_id \in RequestIds : accept_task(request_id) /\ UNCHANGED inflight
  \/ \E request_id \in RequestIds : helper_confirm(request_id) /\ UNCHANGED inflight
  \/ \E request_id \in RequestIds : requester_approve(request_id) /\ UNCHANGED inflight
  \/ \E request_id \in RequestIds : chat_view(request_id) /\ UNCHANGED inflight
  \/ \E request_id \in RequestIds, content \in Contents, now \in Times :
       send_message(request_id, content, now)
         /\ Within(MaxRequests, LedgerMessages) /\ UNCHANGED inflight
  \/ logout /\ UNCHANGED inflight
  \/ login_signup("GET", "None", "", "None") /\ UNCHANGED inflight
  \/ \E username \in UsernameFields, password \in Passwords, action \in FormActions :
       login_signup("POST", username, password, action)
         /\ Within(MaxRequests, LedgerMessages) /\ UNCHANGED inflight

\* every route, any caller, any form: the lifecycle and the ledger over MaxRequests requests
Spec == Init /\ [][Next]_vars

NextChat ==
  \/ index /\ UNCHANGED inflight
  \/ create_request("GET", "None", "None", "None") /\ UNCHANGED inflight
  \/ \E title \in TextFields, description \in TextFields, difficulty \in Difficulties :
       create_request("POST", title, description, difficulty)
         /\ Within(ChatRequests, MaxMessages) /\ UNCHANGED inflight
  \/ \E request_id \in RequestIds : accept_task(request_id) /\ UNCHANGED inflight
  \/ \E request_id \in RequestIds : helper_confirm(request_id) /\ UNCHANGED inflight
  \/ \E request_id \in RequestIds : requester_approve(request_id) /\ UNCHANGED inflight
  \/ \E request_id \in RequestIds : chat_view(request_id) /\ UNCHANGED inflight
  \/ \E request_id \in RequestIds, content \in Contents, now \in Times :
       send_message(request_id, content, now)
         /\ Within(ChatRequests, MaxMessages) /\ UNCHANGED inflight
  \/ logout /\ UNCHANGED inflight
  \/ login_signup("GET", "None", "", "None") /\ UNCHANGED inflight
  \/ \E username \in UsernameFields, password \in Passwords, action \in FormActions :
       login_signup("POST", username, password, action)
         /\ Within(ChatRequests, MaxMessages) /\ UNCHANGED inflight

\* every route, any caller, any form: the chat threads of ChatRequests requests
SpecChat == Init /\ [][NextChat]_vars

\* every request id of a URL when the balances are explored
LedgerRequestIds == 1 .. (LedgerRequests + 1)

NextLedger ==
  \/ index /\ UNCHANGED inflight
  \/ \E title \in TextFields, description \in TextFields, difficulty \in Difficulties :
       create_request("POST", title, description, difficulty)
         /\ Within(LedgerRequests, LedgerMessages) /\ UNCHANGED inflight
  \/ \E request_id \in LedgerRequestIds : accept_task(request_id) /\ UNCHANGED inflight
  \/ \E request_id \in LedgerRequestIds : helper_confirm(request_id) /\ UNCHANGED inflight
  \/ \E request_id \in LedgerRequestIds : requester_approve(request_id) /\ UNCHANGED inflight
  \/ logout /\ UNCHANGED inflight
  \/ \E username \in UsernameFields, password \in Passwords, action \in FormActions :
       login_signup("POST", username, password, action)
         /\ Len(users') <= LedgerUsers /\ UNCHANGED inflight

\* the routes that move coins and experience points, over LedgerRequests
\* requests of LedgerUsers users
SpecLedger == Init /\ [][NextLedger]_vars

\* the overlapping calls stay within the bounds of the exploration
WithinCalls(maxCalls) ==
  Cardinality(inflight'.loaded) + Len(inflight'.committed) <= maxCalls

NextRace ==
  \/ index /\ UNCHANGED inflight
  \/ \E title \in TextFields, description \in TextFields, difficulty \in Difficulties :
       create_request("POST", title, description, difficulty)
         /\ Within(RaceRequests, LedgerMessages) /\ UNCHANGED inflight
  \/ \E request_id \in RequestIds : accept_task_load(request_id) /\ WithinCalls(RaceCalls)
  \/ \E call \in inflight.loaded : accept_task_commit(call)
  \/ \E request_id \in RequestIds : helper_confirm(request_id) /\ UNCHANGED inflight
  \/ \E request_id \in RequestIds : requester_approve(request_id) /\ UNCHANGED inflight
  \/ logout /\ UNCHANGED inflight
  \/ \E username \in UsernameFields, password \in Passwords, action \in FormActions :
       login_signup("POST", username, password, action)
         /\ Within(RaceRequests, LedgerMessages) /\ UNCHANGED inflight

\* the routes of the lifecycle with accept_task calls that overlap: between the
\* load of one call and its commit any other call may run
SpecRace == Init /\ [][NextRace]_vars

\* a user as the board example gives it: (experience points, coins, name)
BoardUser(experience_points, coins, username) ==
  [username |-> username, password_hash |-> generate_password_hash("password"),
   coins |-> coins, experience_points |-> experience_points]

\* users who registered after the seeded two and have earned and spent since
BoardRows ==
  {BoardUser(xp, coins, username) :
     xp \in {100, 500}, coins \in {0, 10, 20}, username \in {"a", "b", "c"}}

\* one to three of them, no username twice
BoardHeads ==
  {t \in UNION {[1 .. n -> BoardRows] : n \in 1 .. 3} :
     \A i, j \in 1 .. Len(t) : i # j => t[i].username # t[j].username}

\* m more users behind them, named d, e, f, ... with keys that tie with theirs
BoardTail(m) ==
  [i \in 1 .. m |->
     BoardUser(IF i % 2 = 1 THEN 500 ELSE 100, 10 * (i % 3), BoardNames[3 + i])]

\* the user tables the dashboard is applied to: never more than MaxBoardUsers rows
BoardTables ==
  {SeedUsers \o head \o BoardTail(m) :
     head \in BoardHeads, m \in 0 .. (MaxBoardUsers - Len(SeedUsers) - 3)}

InitBoard ==
  /\ users \in BoardTables
  /\ requests = << >>
  /\ messages = << >>
  /\ session \in {1, Len(users)}
  /\ resp = Response("render", FALSE, NoView)
  /\ inflight = NoCalls

NextBoard ==
  \/ index /\ UNCHANGED inflight
  \/ logout /\ UNCHANGED inflight

\* the dashboard over user tables of up to MaxBoardUsers rows
SpecBoard == InitBoard /\ [][NextBoard]_vars

----------------------------------------------------------------------------
(* Vocabulary of the properties *)

\* the request is known and in the given status
InStatus(request_id, status) ==
  request_id \in DOMAIN requests /\ requests[request_id].status = status

\* the database: everything but the caller's session and the response
Database == <<users, requests, messages>>

\* the single forward steps of the lifecycle
ForwardSteps ==
  { <<"Live", "Accepted">>, <<"Accepted", "Confirmed_By_Helper">>,
    <<"Confirmed_By_Helper", "Completed">> }

\* a call that was turned down: the database is as it was, and the answer is a
\* redirect with a notice or a 500 (nothing is rendered)
Refused ==
  /\ UNCHANGED Database
  /\ resp'.kind = "error" \/ (resp'.kind = "redirect" /\ resp'.notice)

\* the claimed reward of a difficulty label
ClaimedReward(difficulty) ==
  CASE difficulty = "Easy" -> 10
    [] difficulty = "Medium" -> 25
    [] difficulty = "Hard" -> 50
    [] OTHER -> 10

\* what a user starts with: the seeded balance, or the registration default
StartCoins(u) == IF u <= Len(SeedUsers) THEN SeedUsers[u].coins ELSE DefaultCoins

StartExperience(u) ==
  IF u <= Len(SeedUsers) THEN SeedUsers[u].experience_points ELSE DefaultExperience

----------------------------------------------------------------------------
(* C1: over any calls by any callers a request's status changes only by the  *)
(* single steps Live -> Accepted -> Confirmed_By_Helper -> Completed: never  *)
(* backward, never skipping a state (an approve of a Live or Accepted        *)
(* request fails and leaves the database as it is), a request is never       *)
(* deleted, and a Completed request keeps its status.                        *)

C1_StepsForward ==
  \A id \in DOMAIN requests :
    /\ id \in DOMAIN requests'
    /\ \/ requests'[id].status = requests[id].status
       \/ <<requests[id].status, requests'[id].status>> \in ForwardSteps
    /\ requests[id].status = "Completed" => requests'[id].status = "Completed"

C1_ApproveOutOfOrderFails ==
  \A request_id \in RequestIds :
    ((InStatus(request_id, "Live") \/ InStatus(request_id, "Accepted"))
       /\ requester_approve(request_id))
    => Refused

\* C1: a status moves only by single forward steps; an out-of-order approve is refused
C1_ForwardOnly == [][C1_StepsForward /\ C1_ApproveOutOfOrderFails]_vars

\* a request that went all the way, beside one that is still Live
C1_Witness ==
  /\ \E id \in DOMAIN requests : requests[id].status = "Completed"
  /\ \E id \in DOMAIN requests : requests[id].status = "Live"
  /\ resp.kind = "redirect" /\ resp.notice

----------------------------------------------------------------------------
(* C2: requester_approve by the requester of a request in                    *)
(* Confirmed_By_Helper adds exactly reward_coins to the helper's coins and   *)
(* exactly xp_value to the helper's experience points, and changes no other  *)
(* user; the credit happens once per request: coins grow and XP changes only *)
(* in the step that takes one request from Confirmed_By_Helper to Completed, *)
(* a Completed request stays as it is, and an approve of a Completed request *)
(* fails and leaves balances, XP and status alone.                           *)

\* users after the helper of request q was paid
Paid(q) ==
  [users EXCEPT ![q.helper_id].coins = @ + q.reward_coins,
                ![q.helper_id].experience_points = @ + q.xp_value]

C2_ApproveCredits ==
  \A request_id \in RequestIds :
    (InStatus(request_id, "Confirmed_By_Helper")
       /\ session = requests[request_id].requester_id
       /\ requester_approve(request_id))
    => /\ requests[request_id].helper_id \in DOMAIN users
       /\ users' = Paid(requests[request_id])
       /\ requests' = [requests EXCEPT ![request_id].status = "Completed"]

C2_ApproveCompletedFails ==
  \A request_id \in RequestIds :
    (InStatus(request_id, "Completed") /\ requester_approve(request_id)) => Refused

C2_CreditOnlyOnCompletion ==
  \A u \in DOMAIN users :
    (users'[u].coins > users[u].coins
       \/ users'[u].experience_points # users[u].experience_points)
    => \E id \in DOMAIN requests :
         /\ requests[id].status = "Confirmed_By_Helper"
         /\ requests[id].helper_id = u
         /\ requests' = [requests EXCEPT ![id].status = "Completed"]
         /\ users' = Paid(requests[id])

C2_CompletedIsFinal ==
  \A id \in DOMAIN requests :
    requests[id].status = "Completed" => requests'[id] = requests[id]

\* C2: the approval pays the helper exactly reward_coins and xp_value, once per request
C2_CreditedExactlyOnce ==
  [][C2_ApproveCredits /\ C2_ApproveCompletedFails
       /\ C2_CreditOnlyOnCompletion /\ C2_CompletedIsFinal]_vars

\* a Completed request whose helper holds the starting balance and XP plus the reward
C2_Witness ==
  \E id \in DOMAIN requests :
    LET h == requests[id].helper_id IN
    /\ requests[id].status = "Completed"
    /\ users[h].coins = StartCoins(h) + requests[id].reward_coins
    /\ users[h].experience_points = StartExperience(h) + requests[id].xp_value

----------------------------------------------------------------------------
(* C3: create_request by a logged-in requester with balance b and reward r   *)
(* (from the difficulty mapping): if b >= r, b = r included, a new Live      *)
(* request is created and the balance becomes b - r; if b < r the creation   *)
(* is rejected, no request is produced and the balance stays b.              *)

\* the request table with a new Live request of the caller added
Posted(reward) ==
  /\ Len(requests') = Len(requests) + 1
  /\ \A id \in DOMAIN requests : requests'[id] = requests[id]
  /\ requests'[Len(requests')].status = "Live"
  /\ requests'[Len(requests')].requester_id = session
  /\ requests'[Len(requests')].reward_coins = reward
  /\ users' = [users EXCEPT ![session].coins = @ - reward]

C3_Create(title, description, difficulty) ==
  (get_current_user # NoUser /\ create_request("POST", title, description, difficulty))
  => IF users[session].coins >= ClaimedReward(difficulty)
     THEN Posted(ClaimedReward(difficulty))
     ELSE Refused

\* C3: a logged-in create with b >= r posts a Live request and leaves b - r, with
\* b < r it is rejected and changes nothing
C3_CreateDebitsOrRejects ==
  [][\A title \in TextFields, description \in TextFields, difficulty \in Difficulties :
       C3_Create(title, description, difficulty)]_vars

\* the same for the forms that carry a title and a description
C3_CreateWithTextFields ==
  [][\A difficulty \in Difficulties : C3_Create("text", "text", difficulty)]_vars

----------------------------------------------------------------------------
(* C4: accept_task succeeds only when the request exists, is Live and the    *)
(* caller is a user other than its requester: then the caller becomes the    *)
(* helper and the status Accepted.  Every other accept (unknown id, wrong    *)
(* status, the requester's own request) fails and leaves status and          *)
(* helper_id as they were; a helper_id changes in no other way.              *)

\* the request exists, is Live, and the caller is a user other than its requester
C4_MayAccept(request_id) ==
  /\ InStatus(request_id, "Live")
  /\ get_current_user # NoUser
  /\ get_current_user # requests[request_id].requester_id

C4_Accept ==
  /\ \A request_id \in RequestIds :
       (C4_MayAccept(request_id) /\ accept_task(request_id))
       => /\ requests' = [requests EXCEPT ![request_id].helper_id = session,
                                          ![request_id].status = "Accepted"]
          /\ users' = users
  /\ \/ Refused
     \/ \A request_id \in RequestIds :
          ~C4_MayAccept(request_id) => ~accept_task(request_id)

C4_HelperSetOnlyByAccept ==
  \A id \in DOMAIN requests :
    (requests'[id].helper_id # requests[id].helper_id
       \/ (requests[id].status = "Live" /\ requests'[id].status # "Live"))
    => /\ requests[id].status = "Live"
       /\ requests'[id].status = "Accepted"
       /\ requests'[id].helper_id = session
       /\ session \in DOMAIN users
       /\ session # requests[id].requester_id

\* C4: only a user other than the requester accepts, and only a Live request;
\* every other accept changes nothing
C4_AcceptGuarded == [][C4_Accept /\ C4_HelperSetOnlyByAccept]_vars

\* an Accepted request in the hands of the caller, who is not its requester,
\* beside a Live request of the caller's own
C4_Witness ==
  /\ \E id \in DOMAIN requests :
       /\ requests[id].status = "Accepted"
       /\ requests[id].helper_id = session
       /\ requests[id].requester_id # session
  /\ \E id \in DOMAIN requests :
       requests[id].status = "Live" /\ requests[id].requester_id = session
  /\ resp.kind = "redirect" /\ resp.notice

----------------------------------------------------------------------------
(* C5: helper_confirm changes a request only when the caller is its assigned *)
(* helper and its status is Accepted, and requester_approve changes state    *)
(* only when the caller is its requester and its status is                   *)
(* Confirmed_By_Helper; every other call of the two is refused and leaves    *)
(* status, helper_id and every user's coins and XP as they were.             *)

\* the caller is the assigned helper of the request, which is Accepted
C5_MayConfirm(request_id) ==
  /\ InStatus(request_id, "Accepted")
  /\ get_current_user # NoUser
  /\ get_current_user = requests[request_id].helper_id

\* the caller is the requester of the request, which is Confirmed_By_Helper
C5_MayApprove(request_id) ==
  /\ InStatus(request_id, "Confirmed_By_Helper")
  /\ get_current_user # NoUser
  /\ get_current_user = requests[request_id].requester_id

C5_Confirm ==
  /\ \A request_id \in RequestIds :
       (C5_MayConfirm(request_id) /\ helper_confirm(request_id))
       => /\ requests' = [requests EXCEPT ![request_id].status = "Confirmed_By_Helper"]
          /\ users' = users
  /\ \/ Refused
     \/ \A request_id \in RequestIds :
          ~C5_MayConfirm(request_id) => ~helper_confirm(request_id)

C5_Approve ==
  /\ \A request_id \in RequestIds :
       (C5_MayApprove(request_id) /\ requester_approve(request_id))
       => requests' = [requests EXCEPT ![request_id].status = "Completed"]
  /\ \/ Refused
     \/ \A request_id \in RequestIds :
          ~C5_MayApprove(request_id) => ~requester_approve(request_id)

\* whoever moves a request out of Accepted is its helper, out of
\* Confirmed_By_Helper its requester
C5_MovedByTheRightActor ==
  \A id \in DOMAIN requests :
    /\ (requests[id].status = "Accepted" /\ requests'[id].status # "Accepted")
         => session = requests[id].helper_id
    /\ (requests[id].status = "Confirmed_By_Helper"
          /\ requests'[id].status # "Confirmed_By_Helper")
         => session = requests[id].requester_id

\* C5: only the helper confirms an Accepted request and only the requester approves
\* a Confirmed_By_Helper request; every other call of the two changes nothing
C5_ConfirmApproveGuarded ==
  [][C5_Confirm /\ C5_Approve /\ C5_MovedByTheRightActor]_vars

\* a third user, neither requester nor helper, was just refused while one request
\* waits for its helper's confirmation and another for its requester's approval
C5_Witness ==
  /\ session \in DOMAIN users
  /\ \E id \in DOMAIN requests : requests[id].status = "Accepted"
  /\ \E id \in DOMAIN requests : requests[id].status = "Confirmed_By_Helper"
  /\ \A id \in DOMAIN requests :
       session # requests[id].requester_id /\ session # requests[id].helper_id
  /\ resp.kind = "redirect" /\ resp.notice

----------------------------------------------------------------------------
(* C6: for any requester A whose balance b is at least the reward r of the   *)
(* chosen difficulty and any other logged-in user B, create_request by A,    *)
(* accept_task by B, helper_confirm by B, requester_approve by A each        *)
(* succeed: the request is created Live and A holds b - r, then it is        *)
(* Accepted with helper B, then Confirmed_By_Helper, then Completed with B's *)
(* coins raised by r, B's XP by xp_value and A's balance untouched.          *)

C6_Create(title, description, difficulty) ==
  (get_current_user # NoUser
     /\ users[session].coins >= ClaimedReward(difficulty)
     /\ create_request("POST", title, description, difficulty))
  => Posted(ClaimedReward(difficulty))

C6_Accept ==
  \A request_id \in RequestIds :
    (InStatus(request_id, "Live")
       /\ get_current_user # NoUser /\ session # requests[request_id].requester_id
       /\ accept_task(request_id))
    => /\ requests' = [requests EXCEPT ![request_id].helper_id = session,
                                       ![request_id].status = "Accepted"]
       /\ users' = users

C6_Confirm ==
  \A request_id \in RequestIds :
    (InStatus(request_id, "Accepted")
       /\ session = requests[request_id].helper_id
       /\ helper_confirm(request_id))
    => /\ requests' = [requests EXCEPT ![request_id].status = "Confirmed_By_Helper"]
       /\ users' = users

C6_Approve ==
  \A request_id \in RequestIds :
    (InStatus(request_id, "Confirmed_By_Helper")
       /\ session = requests[request_id].requester_id
       /\ requester_approve(request_id))
    => /\ requests' = [requests EXCEPT ![request_id].status = "Completed"]
       /\ users' = Paid(requests[request_id])
       /\ users'[session].coins = users[session].coins

\* C6: create by A with b >= r, accept by B, confirm by B, approve by A each succeed
C6_EndToEnd ==
  [][/\ \A title \in TextFields, description \in TextFields, difficulty \in Difficulties :
          C6_Create(title, description, difficulty)
     /\ C6_Accept /\ C6_Confirm /\ C6_Approve]_vars

\* the same for the forms that carry a title and a description
C6_EndToEndWithTextFields ==
  [][/\ \A difficulty \in Difficulties : C6_Create("text", "text", difficulty)
     /\ C6_Accept /\ C6_Confirm /\ C6_Approve]_vars

\* the example: A registered with 100 coins, posted a Medium request and holds 75;
\* B (HelperB) went through with it and holds 25 coins and 25 XP more
C6_Example ==
  \E id \in DOMAIN requests :
    LET A == requests[id].requester_id
        B == requests[id].helper_id
    IN /\ requests[id].status = "Completed" /\ requests[id].reward_coins = 25
       /\ StartCoins(A) = 100 /\ users[A].coins = 75
       /\ users[B].coins = StartCoins(B) + 25
       /\ users[B].experience_points = StartExperience(B) + 25

----------------------------------------------------------------------------
(* C7: every accept_task, helper_confirm, requester_approve, chat_view and   *)
(* send_message call, for any request id, known or not, and any caller,      *)
(* logged in or without a session identity, that is turned down ends in a    *)
(* redirect with a notice; none ends in an unhandled error.                  *)

\* the step is a call of one of the five routes
C7_Call ==
  \/ \E request_id \in RequestIds :
       \/ accept_task(request_id)
       \/ helper_confirm(request_id)
       \/ requester_approve(request_id)
       \/ chat_view(request_id)
  \/ \E request_id \in RequestIds, content \in Contents, now \in Times :
       send_message(request_id, content, now)

\* the call was answered by a page, or it changed the database, or it ended in a
\* redirect with a notice
C7_Handled ==
  \/ resp'.kind = "render"
  \/ resp'.kind = "redirect" /\ (resp'.notice \/ ~UNCHANGED Database)

\* C7: a call of the five routes that is turned down ends in a redirect with a
\* notice, never in an unhandled error
C7_RejectionsHandled == [][C7_Call => C7_Handled]_vars

\* the same for the callers that are logged in
C7_RejectionsHandledWhenLoggedIn ==
  [][(get_current_user # NoUser /\ C7_Call) => C7_Handled]_vars

----------------------------------------------------------------------------
(* C8: a request's reward_coins and xp_value are set at creation to the same *)
(* value, 10 for Easy, 25 for Medium, 50 for Hard and 10 for an unknown or   *)
(* missing label, and no later step of any route changes either.             *)

C8_SetAtCreation ==
  \A title \in TextFields, description \in TextFields, difficulty \in Difficulties :
    (Len(requests') = Len(requests) + 1
       /\ create_request("POST", title, description, difficulty))
    => /\ requests'[Len(requests')].reward_coins = ClaimedReward(difficulty)
       /\ requests'[Len(requests')].xp_value = ClaimedReward(difficulty)

C8_NeverRecalculated ==
  \A id \in DOMAIN requests :
    /\ requests'[id].reward_coins = requests[id].reward_coins
    /\ requests'[id].xp_value = requests[id].xp_value

\* in every state the two fields agree and hold a value of the mapping
C8_ValuesOfTheMapping ==
  \A id \in DOMAIN requests' :
    /\ requests'[id].reward_coins = requests'[id].xp_value
    /\ requests'[id].reward_coins \in {10, 25, 50}

\* C8: reward_coins = xp_value = the value of the label, set at creation, never changed
C8_RewardFixed ==
  [][C8_SetAtCreation /\ C8_NeverRecalculated /\ C8_ValuesOfTheMapping]_vars

\* a Hard request that went all the way still carries 50 and 50, beside a
\* request worth 10
C8_Witness ==
  /\ \E id \in DOMAIN requests :
       /\ requests[id].status = "Completed"
       /\ requests[id].reward_coins = 50 /\ requests[id].xp_value = 50
  /\ \E id \in DOMAIN requests :
       requests[id].reward_coins = 10 /\ requests[id].xp_value = 10

----------------------------------------------------------------------------
(* C9: send_message with non-empty content on an existing request adds       *)
(* exactly one message, from the caller, when the caller is the request's    *)
(* requester or its assigned helper, whatever the request's status; for any  *)
(* other logged-in caller, or when the content is empty, no message is       *)
(* added: the message table changes only by such an append.                  *)

\* the caller is the requester or the assigned helper of the request
C9_Participant(request_id) ==
  /\ request_id \in DOMAIN requests
  /\ get_current_user # NoUser
  /\ \/ get_current_user = requests[request_id].requester_id
     \/ get_current_user = requests[request_id].helper_id

C9_Send ==
  /\ \A request_id \in RequestIds, content \in Contents, now \in Times :
       (content # "" /\ C9_Participant(request_id)
          /\ send_message(request_id, content, now))
       => /\ Len(messages') = Len(messages) + 1
          /\ messages'[Len(messages')] =
               [request_id |-> request_id, sender_id |-> session,
                content |-> content, timestamp |-> now]
          /\ UNCHANGED <<users, requests>>
  /\ \/ messages' = messages
     \/ \A request_id \in RequestIds, content \in Contents, now \in Times :
          ~(content # "" /\ C9_Participant(request_id))
          => ~send_message(request_id, content, now)

C9_OnlyParticipantsAppend ==
  messages' # messages
  => /\ Len(messages') = Len(messages) + 1
     /\ \A i \in DOMAIN messages : messages'[i] = messages[i]
     /\ LET m == messages'[Len(messages')] IN
        /\ m.content # ""
        /\ m.sender_id = session
        /\ C9_Participant(m.request_id)

\* C9: a participant's non-empty send appends exactly one message; nothing else
\* changes the message table
C9_ChatGuarded == [][C9_Send /\ C9_OnlyParticipantsAppend]_vars

\* the requester and the helper have each written to the thread of a Completed
\* request, and the last send was answered with the redirect to the chat
C9_Witness ==
  /\ \E id \in DOMAIN requests :
       /\ requests[id].status = "Completed"
       /\ \E i \in DOMAIN messages :
            messages[i].request_id = id /\ messages[i].sender_id = requests[id].requester_id
       /\ \E i \in DOMAIN messages :
            messages[i].request_id = id /\ messages[i].sender_id = requests[id].helper_id
  /\ session \in DOMAIN users
  /\ resp.kind = "redirect" /\ ~resp.notice

----------------------------------------------------------------------------
(* C10: the message log is append-only: over any calls the messages of a     *)
(* request only grow, a message's sender, content, request and timestamp     *)
(* never change, and chat_view shows a participant all the messages of the   *)
(* request, each once, in non-decreasing timestamp order.                    *)

C10_AppendOnly ==
  /\ Len(messages') >= Len(messages)
  /\ \A i \in DOMAIN messages : messages'[i] = messages[i]

\* view lists exactly the messages of the request, each once, oldest first
C10_Thread(view, request_id) ==
  /\ \A i \in DOMAIN view :
       view[i] \in DOMAIN messages /\ messages[view[i]].request_id = request_id
  /\ \A id \in DOMAIN messages :
       messages[id].request_id = request_id => \E i \in DOMAIN view : view[i] = id
  /\ \A i, j \in DOMAIN view : i # j => view[i] # view[j]
  /\ \A i, j \in DOMAIN view :
       i < j => messages[view[i]].timestamp <= messages[view[j]].timestamp

C10_View ==
  \A request_id \in RequestIds :
    (C9_Participant(request_id) /\ chat_view(request_id))
    => (resp'.kind = "render" /\ C10_Thread(resp'.view, request_id))

\* C10: messages are never removed or altered, and chat_view lists the thread
\* complete and oldest first
C10_AppendOnlyOrdered == [][C10_AppendOnly /\ C10_View]_vars

\* the clock was set back between two messages of a thread, and the page shows
\* the later-written message first
C10_Witness ==
  /\ Len(messages) = 2
  /\ messages[1].request_id = messages[2].request_id
  /\ messages[1].timestamp > messages[2].timestamp
  /\ resp.kind = "render" /\ resp.view = <<2, 1>>

----------------------------------------------------------------------------
(* C11: the leaderboard index computes is the list of all users sorted       *)
(* descending by (experience_points, coins, username), cut to the first 10; *)
(* for the users (500,10,"b"), (500,20,"a"), (100,0,"c") the order is        *)
(* a, b, c.                                                                  *)

\* a stands before b in the claimed order: more experience points, or as many and
\* more coins, or as many of both and the later username
C11_Before(a, b) ==
  \/ a.experience_points > b.experience_points
  \/ /\ a.experience_points = b.experience_points
     /\ a.coins > b.coins
  \/ /\ a.experience_points = b.experience_points
     /\ a.coins = b.coins
     /\ NameRank(a.username) > NameRank(b.username)

\* board lists the first LeaderboardSize users of the claimed order, or all of
\* them when they are fewer, each once, best first
C11_TopTen(board) ==
  /\ \A i \in DOMAIN board : board[i] \in DOMAIN users
  /\ \A i, j \in DOMAIN board : i < j => C11_Before(users[board[i]], users[board[j]])
  /\ Len(board) = (IF Len(users) < 10 THEN Len(users) ELSE 10)
  /\ \A u \in DOMAIN users :
       (\A i \in DOMAIN board : board[i] # u)
       => \A i \in DOMAIN board : C11_Before(users[board[i]], users[u])

\* the example of the claim: rows b, a, c come out as a, b, c
C11_Example ==
  Leaderboard(<<BoardUser(500, 10, "b"), BoardUser(500, 20, "a"),
                BoardUser(100, 0, "c")>>) = <<2, 1, 3>>

\* C11: the leaderboard of the dashboard is the users in descending order of
\* (experience_points, coins, username), cut to the first 10
C11_LeaderboardSorted ==
  [][(get_current_user # NoUser /\ index)
       => (C11_TopTen(resp'.view[5]) /\ C11_Example)]_vars

\* eleven users, a, b and c of the example among them: the board shows ten, a
\* before b before c, and leaves out the user with the least key
C11_Witness ==
  /\ Len(users) > 10
  /\ resp.kind = "render" /\ Len(resp.view) = 5
  /\ LET board == resp.view[5] IN
     /\ Len(board) = 10
     /\ \E i, j, k \in DOMAIN board :
          /\ i < j /\ j < k
          /\ users[board[i]] = BoardUser(500, 20, "a")
          /\ users[board[j]] = BoardUser(500, 10, "b")
          /\ users[board[k]] = BoardUser(100, 0, "c")

----------------------------------------------------------------------------
(* C12: get_karmic_rank gives every XP value from 0 on exactly one label, by *)
(* the bands 0-9 Newbie, 10-49 Helper Recruit, 50-199 Active Peer, 200-499   *)
(* Community Elder, 500 and more Karmic Master; the rank is therefore        *)
(* monotone non-decreasing in XP, and over any calls no user's rank drops.   *)

\* the label the claimed bands give
C12_Band(xp) ==
  CASE xp \in 0 .. 9 -> "Newbie"
    [] xp \in 10 .. 49 -> "Helper Recruit"
    [] xp \in 50 .. 199 -> "Active Peer"
    [] xp \in 200 .. 499 -> "Community Elder"
    [] xp >= 500 -> "Karmic Master"

\* the labels from the lowest to the highest
C12_Ladder ==
  <<"Newbie", "Helper Recruit", "Active Peer", "Community Elder", "Karmic Master">>

\* the height of a label on the ladder
C12_Level(label) == CHOOSE i \in DOMAIN C12_Ladder : C12_Ladder[i] = label

C12_Bands == \A xp \in 0 .. MaxXp : get_karmic_rank(xp) = C12_Band(xp)

C12_Monotone ==
  \A x, y \in 0 .. MaxXp :
    x <= y => C12_Level(get_karmic_rank(x)) <= C12_Level(get_karmic_rank(y))

C12_NeverDrops ==
  \/ users' = users
  \/ \A u \in DOMAIN users :
       C12_Level(get_karmic_rank(users'[u].experience_points))
         >= C12_Level(get_karmic_rank(users[u].experience_points))

\* the dashboard shows the caller the label of the band their XP is in
C12_Shown ==
  (get_current_user # NoUser /\ resp'.kind = "render" /\ Len(resp'.view) = 5 /\ index)
  => resp'.view[4] = C12_Band(users[session].experience_points)

\* C12: the rank follows the five bands, is monotone in XP, and never drops
C12_RankByBands ==
  [][C12_Bands /\ C12_Monotone /\ C12_NeverDrops /\ C12_Shown]_vars

\* the seeded RequesterA, who started as Active Peer, has earned two rewards and
\* sees Community Elder on the dashboard
C12_Witness ==
  /\ session \in DOMAIN users
  /\ get_karmic_rank(StartExperience(session)) = "Active Peer"
  /\ users[session].experience_points >= 200
  /\ resp.kind = "render" /\ Len(resp.view) = 5 /\ resp.view[4] = "Community Elder"

----------------------------------------------------------------------------
(* C13: when two distinct users, neither the requester, run accept_task on   *)
(* the same Live request at the same time, each reading the status as Live   *)
(* before either commits, both calls succeed, and the request ends Accepted  *)
(* with the helper_id of the call that committed last.                       *)

\* a call that got past the guards read the request as Live and is made by a
\* user other than its requester
C13_LoadedAsLive ==
  \A request_id \in RequestIds :
    (accept_task_load(request_id) /\ inflight' # inflight)
    => /\ InStatus(request_id, "Live")
       /\ session \in DOMAIN users /\ session # requests[request_id].requester_id
       /\ inflight'.loaded = inflight.loaded \cup {Call(session, request_id)}

\* the write of a call under way goes through whatever the other calls have
\* committed in between, and leaves the request Accepted by this call's user
C13_CommitSucceeds ==
  \A call \in inflight.loaded :
    accept_task_commit(call)
    => /\ requests'[call.request_id].status = "Accepted"
       /\ requests'[call.request_id].helper_id = call.helper
       /\ resp'.kind = "redirect" /\ resp'.notice

\* the calls under way are not turned down by a commit of another call
C13_StillUnderWay ==
  \A call \in inflight.loaded :
    call \in inflight'.loaded \/ inflight'.committed = Append(inflight.committed, call)

\* C13: both of two overlapping accepts of a Live request succeed; the helper is
\* the user of the call that committed last
C13_LastCommitWins ==
  [][C13_LoadedAsLive /\ C13_CommitSucceeds /\ C13_StillUnderWay]_vars

\* two users loaded the same Live request before either committed; both have
\* committed, and the request is Accepted with the second as its helper
C13_Witness ==
  /\ Len(inflight.committed) = 2
  /\ inflight.committed[1].request_id = inflight.committed[2].request_id
  /\ inflight.committed[1].helper # inflight.committed[2].helper
  /\ LET q == requests[inflight.committed[2].request_id] IN
     /\ q.status = "Accepted"
     /\ q.helper_id = inflight.committed[2].helper
     /\ q.requester_id \notin {inflight.committed[1].helper, inflight.committed[2].helper}

----------------------------------------------------------------------------
(* C14: coins and experience points change only in a successful              *)
(* create_request, which debits the requester, and in a successful           *)
(* requester_approve, which credits the helper; accept_task, helper_confirm, *)
(* send_message, chat_view, index, login and logout leave the coins and the  *)
(* experience points of every user as they were.                             *)

\* every user keeps their coins and their experience points
C14_Untouched ==
  \A u \in DOMAIN users :
    /\ u \in DOMAIN users'
    /\ users'[u].coins = users[u].coins
    /\ users'[u].experience_points = users[u].experience_points

\* the step is a call of one of the routes the claim lists as leaving them alone
C14_OtherRoute ==
  \/ index
  \/ logout
  \/ \E request_id \in RequestIds :
       \/ accept_task(request_id)
       \/ helper_confirm(request_id)
       \/ chat_view(request_id)
  \/ \E request_id \in RequestIds, content \in Contents, now \in Times :
       send_message(request_id, content, now)
  \/ \E username \in UsernameFields, password \in Passwords :
       login_signup("POST", username, password, "login")
  \/ login_signup("GET", "None", "", "None")

\* the step is a create_request that posted a request and took its reward, and
\* nothing else, from the caller
C14_Debit ==
  /\ \E title \in TextFields, description \in TextFields, difficulty \in Difficulties :
       create_request("POST", title, description, difficulty)
  /\ Len(requests') = Len(requests) + 1
  /\ requests'[Len(requests')].requester_id = session
  /\ users' = [users EXCEPT ![session].coins = @ - requests'[Len(requests')].reward_coins]

\* the step is a requester_approve that completed a request and gave its reward
\* and its XP, and nothing else, to the helper
C14_Credit ==
  \E request_id \in DOMAIN requests :
    /\ requester_approve(request_id)
    /\ requests'[request_id].status = "Completed"
    /\ users' = Paid(requests[request_id])

\* C14: only a successful create_request (the requester's debit) and a successful
\* requester_approve (the helper's credit) change coins or experience points
C14_LedgerFrame ==
  [][/\ C14_Untouched \/ ~C14_OtherRoute
     /\ C14_Untouched \/ C14_Debit \/ C14_Credit]_vars

\* a request was posted, accepted, talked about and confirmed: its requester is
\* short of the reward, and everybody else holds what they started with
C14_Witness ==
  /\ Len(messages) > 0
  /\ resp.kind = "redirect" /\ ~resp.notice
  /\ \E id \in DOMAIN requests :
       /\ requests[id].status = "Confirmed_By_Helper"
       /\ \A u \in DOMAIN users :
            /\ users[u].experience_points = StartExperience(u)
            /\ users[u].coins = (IF u = requests[id].requester_id
                                 THEN StartCoins(u) - requests[id].reward_coins
                                 ELSE StartCoins(u))

----------------------------------------------------------------------------
(* C15: in every state the routes reach when they run one after the other,   *)
(* every user's coin balance is at least 0 and every user's experience       *)
(* points are at least 0.                                                    *)

\* C15: no user's coins and no user's experience points are ever negative
C15_NeverNegative ==
  \A u \in DOMAIN users : users[u].coins >= 0 /\ users[u].experience_points >= 0

\* HelperB has put all 100 coins into requests of their own, the last one taking
\* exactly what was left; one more would need coins HelperB has not got
C15_Witness ==
  /\ session = 2 /\ users[2].coins = 0
  /\ Len(requests) = 2
  /\ \A id \in DOMAIN requests : requests[id].requester_id = 2
  /\ resp.kind = "redirect" /\ resp.notice

----------------------------------------------------------------------------
(* C16: a registration with a non-empty username that is not in use creates  *)
(* a user with 100 coins and 0 experience points and logs them in; a         *)
(* registration with a username in use is rejected and leaves the existing   *)
(* user's coins, experience points and credential, and the session, as they  *)
(* were; usernames stay unique, and no user is ever deleted.                 *)

\* some user carries the username
C16_InUse(username) == \E u \in DOMAIN users : users[u].username = username

\* the user table with a new user of 100 coins and 0 experience points, who is
\* the one logged in from now on
C16_Created(username, password) ==
  /\ users' = Append(users, [username |-> username,
                             password_hash |-> generate_password_hash(password),
                             coins |-> 100, experience_points |-> 0])
  /\ session' = Len(users')
  /\ session' \in DOMAIN users'

\* a registration with any of the passwords, a username that is free
C16_Registers(passwords) ==
  \A username \in Usernames, password \in passwords :
    (~C16_InUse(username) /\ login_signup("POST", username, password, "register"))
    => C16_Created(username, password)

\* a registration with a username in use
C16_Duplicate ==
  \/ UNCHANGED <<users, session>>
  \/ \A username \in Usernames, password \in Passwords :
       C16_InUse(username) => ~login_signup("POST", username, password, "register")

C16_Unique ==
  \A u, v \in DOMAIN users' : u # v => users'[u].username # users'[v].username

C16_NeverDeleted ==
  \A u \in DOMAIN users :
    /\ u \in DOMAIN users'
    /\ users'[u].username = users[u].username
    /\ users'[u].password_hash = users[u].password_hash

\* C16 as stated: every registration with a non-empty username that is free
\* creates the user, whatever the password field holds
C16_Registration ==
  [][C16_Registers(Passwords) /\ C16_Duplicate /\ C16_Unique /\ C16_NeverDeleted]_vars

\* C16, amended: a registration with a non-empty username that is free and a
\* non-empty password creates a user with 100 coins and 0 experience points and
\* logs them in; one with a username in use changes neither the users nor the
\* session; usernames stay unique and no user is deleted
C16_RegistrationWithPassword ==
  [][C16_Registers(Passwords \ {""}) /\ C16_Duplicate /\ C16_Unique
       /\ C16_NeverDeleted]_vars

\* Carol has registered and is logged in with 100 coins and no experience points,
\* beside the seeded two
C16_Witness ==
  /\ Len(users) = 3
  /\ users[3].username = "Carol" /\ users[3].coins = 100
  /\ users[3].experience_points = 0
  /\ session = 3
  /\ resp.kind = "redirect" /\ resp.notice

----------------------------------------------------------------------------
(* C17: the live list of the dashboard of a logged-in user holds exactly the *)
(* requests that are Live and whose requester is another user; so the user   *)
(* can accept every request of the list when accept_task is the next call,   *)
(* and a request that has been accepted is in no user's live list again.     *)

\* list names the request
C17_Lists(list, id) == \E i \in DOMAIN list : list[i] = id

\* the step is index answering a logged-in user with the dashboard
C17_Index ==
  get_current_user # NoUser /\ resp'.kind = "render" /\ Len(resp'.view) = 5 /\ index

\* the live list of the page: the Live requests of the others, each once
C17_ExactlyTheOthersLive ==
  C17_Index
  => LET list == resp'.view[2] IN
     /\ \A i, j \in DOMAIN list : i # j => list[i] # list[j]
     /\ \A i \in DOMAIN list : list[i] \in DOMAIN requests
     /\ \A id \in DOMAIN requests :
          C17_Lists(list, id)
          <=> (requests[id].status = "Live" /\ requests[id].requester_id # session)

\* accept_task, called next by the user the page was rendered for, accepts any
\* request of the list
C17_Acceptable ==
  C17_Index
  => \A id \in DOMAIN requests :
       C17_Lists(resp'.view[2], id)
       => ENABLED (/\ accept_task(id)
                   /\ UNCHANGED inflight
                   /\ requests'[id].status = "Accepted"
                   /\ requests'[id].helper_id = session)

\* a request that is no longer Live never is Live again, and whenever the requests
\* or the users have changed no request that is not Live is in anybody's live list
C17_Gone ==
  /\ \A id \in DOMAIN requests :
       requests[id].status # "Live" => requests'[id].status # "Live"
  /\ \/ requests' = requests /\ Len(users') = Len(users)
     \/ \A id \in DOMAIN requests' :
          requests'[id].status # "Live"
          => \A u \in DOMAIN users' : ~C17_Lists(LiveRequests(requests', u), id)

\* C17: the live list holds exactly the Live requests of other users; each can be
\* accepted by its reader next, and none comes back once accepted
C17_LiveList == [][C17_ExactlyTheOthersLive /\ C17_Acceptable /\ C17_Gone]_vars

\* the dashboard of a user who has a Live request of their own: the list holds
\* the Live request of another user and not their own
C17_Witness ==
  /\ session \in DOMAIN users
  /\ resp.kind = "render" /\ Len(resp.view) = 5
  /\ Len(resp.view[2]) = 1
  /\ \E id \in DOMAIN requests :
       requests[id].status = "Live" /\ requests[id].requester_id = session
  /\ requests[resp.view[2][1]].status = "Live"
  /\ requests[resp.view[2][1]].requester_id # session

----------------------------------------------------------------------------
(* C18: coins are conserved through escrow: in every state the routes reach  *)
(* when they run one after the other, the coins of all users together with   *)
(* the reward_coins of all requests that are not Completed are the starting  *)
(* balances of the users together (100 for each registered user, and the     *)
(* balances the seeded users start with).                                    *)

RECURSIVE SumTo(_, _)
\* f[1] + ... + f[n]
SumTo(f, n) == IF n = 0 THEN 0 ELSE f[n] + SumTo(f, n - 1)

\* the coins the users hold
C18_Held == SumTo([u \in DOMAIN users |-> users[u].coins], Len(users))

\* the coins in escrow: the rewards of the requests that are not Completed
C18_Escrow ==
  SumTo([id \in DOMAIN requests |->
           IF requests[id].status # "Completed" THEN requests[id].reward_coins ELSE 0],
        Len(requests))

\* the coins the users started with
C18_Started == SumTo([u \in DOMAIN users |-> StartCoins(u)], Len(users))

\* C18: the coins held and the coins in escrow are the coins the users started with
C18_CoinsConserved == C18_Held + C18_Escrow = C18_Started

\* three users, one request paid out and one still in escrow
C18_Witness ==
  /\ Len(users) = 3
  /\ \E id \in DOMAIN requests : requests[id].status = "Completed"
  /\ \E id \in DOMAIN requests : requests[id].status # "Completed"
  /\ C18_Escrow > 0
  /\ C18_Held = 700 - C18_Escrow

----------------------------------------------------------------------------
(* C19: in every state the routes reach when they run one after the other, a *)
(* request has no helper exactly when it is Live; when it is Accepted,       *)
(* Confirmed_By_Helper or Completed its helper_id names an existing user     *)
(* other than its requester; and a helper_id, once set, never changes, so    *)
(* requester_approve always finds the helper to credit.                      *)

\* in the tables given, the requests without a helper are the Live ones, and
\* every other request has a user other than its requester as helper
C19_HelperWhenTaken(request_table, user_table) ==
  \A id \in DOMAIN request_table :
    LET q == request_table[id] IN
    /\ q.helper_id = NoUser <=> q.status = "Live"
    /\ q.status \in {"Accepted", "Confirmed_By_Helper", "Completed"}
       => (q.helper_id \in DOMAIN user_table /\ q.helper_id # q.requester_id)

C19_HelperKept ==
  \A id \in DOMAIN requests :
    requests[id].helper_id # NoUser
    => requests'[id].helper_id = requests[id].helper_id

\* the approval by the requester of a request that waits for it pays a user
C19_ApproveFindsHelper ==
  \A request_id \in DOMAIN requests :
    (C5_MayApprove(request_id) /\ requester_approve(request_id))
    => /\ resp'.kind = "redirect" /\ resp'.notice
       /\ \E u \in DOMAIN users : users'[u].coins > users[u].coins

\* C19: a request has a helper exactly when it is past Live, the helper is a user
\* other than the requester, and the helper never changes (the tables start
\* empty, so it is enough to look at the steps that change them)
C19_HelperSettled ==
  [][/\ \/ requests' = requests /\ Len(users') = Len(users)
        \/ C19_HelperWhenTaken(requests', users') /\ C19_HelperKept
     /\ C19_ApproveFindsHelper]_vars

\* a request in each of two states past Live, each with a helper who is not its
\* requester, after a call that was answered with a notice
C19_Witness ==
  /\ \E id \in DOMAIN requests :
       /\ requests[id].status = "Accepted"
       /\ requests[id].helper_id \in DOMAIN users
       /\ requests[id].helper_id # requests[id].requester_id
  /\ \E id \in DOMAIN requests :
       /\ requests[id].status = "Completed"
       /\ requests[id].helper_id \in DOMAIN users
       /\ requests[id].helper_id # requests[id].requester_id
  /\ resp.kind = "redirect" /\ resp.notice

----------------------------------------------------------------------------
(* C20: in every state the routes reach when they run one after the other,   *)
(* each user's experience points are the XP they started with plus the       *)
(* xp_value of every Completed request they are the helper of; so XP never   *)
(* decreases, and a requester gains no XP from a request of their own.       *)

\* the xp_value of the Completed requests of the table that u is the helper of
C20_Earned(u, request_table) ==
  SumTo([id \in DOMAIN request_table |->
           IF request_table[id].status = "Completed" /\ request_table[id].helper_id = u
           THEN request_table[id].xp_value ELSE 0],
        Len(request_table))

C20_Accounted(user_table, request_table) ==
  \A u \in DOMAIN user_table :
    user_table[u].experience_points = StartExperience(u) + C20_Earned(u, request_table)

C20_NeverDecreases ==
  \A u \in DOMAIN users :
    users'[u].experience_points >= users[u].experience_points

\* the step that completes a request leaves the XP of its requester as it was
C20_NothingFromOwn ==
  \A id \in DOMAIN requests :
    (requests[id].status # "Completed" /\ requests'[id].status = "Completed")
    => users'[requests[id].requester_id].experience_points
         = users[requests[id].requester_id].experience_points

\* C20: a user's XP is the starting XP plus the xp_value of the Completed requests
\* they helped with; it never decreases, and none comes from a request of one's
\* own (the tables start with the seeded users and no request, so it is enough
\* to look at the steps that change them)
C20_ExperienceEarned ==
  [][\/ users' = users /\ requests' = requests
     \/ /\ C20_Accounted(users', requests')
        /\ C20_NeverDecreases
        /\ C20_NothingFromOwn]_vars

\* one user has helped with two requests that are Completed, and holds the
\* starting XP and the xp_value of both; the requesters hold what they started with
C20_Witness ==
  /\ Len(requests) = 2
  /\ requests[1].status = "Completed" /\ requests[2].status = "Completed"
  /\ requests[1].helper_id = requests[2].helper_id
  /\ requests[1].xp_value # requests[2].xp_value
  /\ LET h == requests[1].helper_id IN
     users[h].experience_points
       = StartExperience(h) + requests[1].xp_value + requests[2].xp_value
  /\ \A id \in DOMAIN requests :
       users[requests[id].requester_id].experience_points
         = StartExperience(requests[id].requester_id)

====
